---- MODULE Spec2Model ----
(***************************************************************************)
(* Model of streamlit_app.py: loading and normalising the daily / monthly  *)
(* dataset, the period totals, the per-user attachment split, the ranking, *)
(* the detailed process view and the export column order.                  *)
(*                                                                         *)
(* JSON values are modelled as follows.                                    *)
(*   - a dict with string keys whose insertion order is observable (the    *)
(*     dataset, a period, a verification tally) is a sequence of           *)
(*     [key, val] items with pairwise different keys;                      *)
(*   - a process record and a summary are functions whose DOMAIN is the    *)
(*     set of keys the dict carries (a missing key is not in the DOMAIN);  *)
(*   - a per-user value is tagged with its Python type: a list is          *)
(*     [t |-> "list", items |-> <<...>>], the current shape is             *)
(*     [t |-> "dict", processes |-> <<...>>, summary |-> [...]];           *)
(*   - an excel_document value is tagged alike: "null", "str" or "dict".   *)
(* An exception that leaves a function is the value Raised(name).          *)
(***************************************************************************)
EXTENDS Integers, Sequences, FiniteSets, TLC

\* Bounds of the input space.
MaxPeriods == 2
MaxUsers == 3
MaxProcs == 2
MaxCount == 2

VARIABLES
    view_type,      \* main: the radio choice, "daily" or "monthly"
    source,         \* the input file of that view: "missing", "malformed", "ok"
    raw,            \* what json.load yields when the file is "ok"
    pc,             \* position of the run
    data,           \* the value load_data / load_monthly_data returned
    error,          \* "none", or the exception that ended the run
    signalled,      \* TRUE iff st.error reported the missing source
    selected_period,
    period_data,    \* data[selected_period]
    totals,         \* display_stats_content, lines 305-314
    table_data,     \* display_stats_content, lines 347-407
    sorted_users,   \* display_stats_content, line 417
    selected_user,
    formatted_processes,         \* display_stats_content, lines 519-541
    ordered_verification_types,  \* create_excel_dataframe, lines 78-83
    total_badges,   \* display_stats_content, lines 450-471: the total badge row
    user_badges,    \* display_stats_content, lines 476-495: the per-user badge rows
    excel_data      \* create_excel_dataframe, lines 86-111: the export table

vars == <<view_type, source, raw, pc, data, error, signalled, selected_period,
          period_data, totals, table_data, sorted_users, selected_user,
          formatted_processes, ordered_verification_types, total_badges,
          user_badges, excel_data>>

-----------------------------------------------------------------------------
(* Python primitives *)

\* d.get(k, default) on a dict modelled as a function
Get(d, k, default) == IF k \in DOMAIN d THEN d[k] ELSE default

\* the dict without key k (del d[k])
Del(d, k) == [x \in (DOMAIN d) \ {k} |-> d[x]]

\* the dict with d[k] = v (insert or overwrite)
Put(d, k, v) == [x \in (DOMAIN d) \cup {k} |-> IF x = k THEN v ELSE d[x]]

\* an item of an insertion-ordered dict
Item(k, v) == [key |-> k, val |-> v]

Keys(od) == {od[i].key : i \in DOMAIN od}

\* od.get(k, default) on an insertion-ordered dict
OGet(od, k, default) ==
    IF k \in Keys(od)
    THEN od[CHOOSE i \in DOMAIN od : od[i].key = k].val
    ELSE default

\* od[k] = v: overwrite in place, or append a new key at the end
OPut(od, k, v) ==
    IF k \in Keys(od)
    THEN [i \in DOMAIN od |-> IF od[i].key = k THEN Item(k, v) ELSE od[i]]
    ELSE Append(od, Item(k, v))

RECURSIVE SumSeq(_)
SumSeq(s) == IF s = <<>> THEN 0 ELSE Head(s) + SumSeq(Tail(s))

Returned(v) == [error |-> "none", value |-> v, st_error |-> FALSE]
Raised(e) == [error |-> e, value |-> <<>>, st_error |-> FALSE]

-----------------------------------------------------------------------------
(* load_data: shape detection and legacy migration *)

\* sum(p.get(field, 0) for p in processes)
SumGet(processes, field) ==
    SumSeq([i \in DOMAIN processes |-> Get(processes[i], field, 0)])

\* lines 161-162 with the count assigned instead of added
RECURSIVE AddItemsOverwrite(_, _)
AddItemsOverwrite(acc, items) ==
    IF items = <<>> THEN acc
    ELSE AddItemsOverwrite(OPut(acc, Head(items).key, Head(items).val), Tail(items))

\* lines 161-162: add one process's tally to the user's tally, item by item
RECURSIVE AddItems(_, _)
AddItems(acc, items) ==
    IF items = <<>> THEN acc
    ELSE AddItems(OPut(acc, Head(items).key,
                       OGet(acc, Head(items).key, 0) + Head(items).val),
                  Tail(items))

\* lines 158-162
RECURSIVE MergeVerificationTypes(_, _)
MergeVerificationTypes(acc, processes) ==
    IF processes = <<>> THEN acc
    ELSE MergeVerificationTypes(
             AddItems(acc, Get(Head(processes), "verification_types_count", <<>>)),
             Tail(processes))

\* lines 151-175: the {processes, summary} entry of one user
ConvertUser(processes) ==
    [t |-> "dict",
     processes |-> processes,
     summary |->
        [total_individuals |-> SumGet(processes, "total_individuals"),
         successful_onboardings |-> SumGet(processes, "successful_onboardings"),
         failed_onboardings |-> SumGet(processes, "failed_onboardings"),
         discarded_candidates |-> SumGet(processes, "discarded_candidates"),
         verifications_initiated |-> SumGet(processes, "verifications_initiated"),
         verification_types_count |-> MergeVerificationTypes(<<>>, processes)]]

\* lines 146-176
ConvertData(d) ==
    [i \in DOMAIN d |->
        Item(d[i].key,
             [j \in DOMAIN d[i].val |->
                 Item(d[i].val[j].key, ConvertUser(d[i].val[j].val.items))])]

\* line 144: "empty" (falsy data), "legacy", "current", or the exception of
\* list(first.keys())[0] on a first period without users
DetectShape(d) ==
    IF d = <<>> THEN "empty"
    ELSE IF d[1].val = <<>> THEN "IndexError"
    ELSE IF d[1].val[1].val.t = "list" THEN "legacy"
    ELSE "current"

\* lines 143-178 applied to parsed data
Normalize(d) ==
    LET shape == DetectShape(d) IN
    IF shape = "IndexError" THEN Raised("IndexError")
    ELSE IF shape = "legacy" THEN Returned(ConvertData(d))
    ELSE Returned(d)

\* lines 138-181; only FileNotFoundError is caught
load_data(src, content) ==
    IF src = "missing" THEN [error |-> "none", value |-> <<>>, st_error |-> TRUE]
    ELSE IF src = "malformed" THEN Raised("JSONDecodeError")
    ELSE Normalize(content)

\* lines 183-190
load_monthly_data(src, content) ==
    IF src = "missing" THEN [error |-> "none", value |-> <<>>, st_error |-> TRUE]
    ELSE IF src = "malformed" THEN Raised("JSONDecodeError")
    ELSE Returned(content)

-----------------------------------------------------------------------------
(* Display names and the order of verification codes *)

\* lines 15-41 (the entries of the identifiers the inputs use)
USER_ID_MAP ==
    ("514833" :> "Manish Bisht") @@ ("591950" :> "Vikram Thakur") @@
    ("905072" :> "Vikash Singh") @@ ("1081989" :> "Sushma Negi")

\* lines 43-45
get_user_display_name(user_id) ==
    IF user_id \in DOMAIN USER_ID_MAP THEN USER_ID_MAP[user_id] ELSE user_id

\* lines 61-65
FIXED_VERIFICATION_ORDER ==
    <<"AV", "PANV", "DLV", "VIDV", "CCRV", "EDUV", "EMPV", "LAV", "PAV",
      "LAPV", "PAPV", "LADV", "PADV", "PRC", "PCC", "PVLF", "CC", "GDC",
      "BAV", "EREF", "EHC", "OFACC", "DRG", "PPV", "CVV", "XAV", "SMC">>

\* The code points of every code of the model: Python compares str values
\* code point by code point, a proper prefix being the smaller.
CodePoints ==
    [AV |-> <<65, 86>>, PANV |-> <<80, 65, 78, 86>>, DLV |-> <<68, 76, 86>>,
     VIDV |-> <<86, 73, 68, 86>>, CCRV |-> <<67, 67, 82, 86>>,
     EDUV |-> <<69, 68, 85, 86>>, EMPV |-> <<69, 77, 80, 86>>,
     LAV |-> <<76, 65, 86>>, PAV |-> <<80, 65, 86>>,
     LAPV |-> <<76, 65, 80, 86>>, PAPV |-> <<80, 65, 80, 86>>,
     LADV |-> <<76, 65, 68, 86>>, PADV |-> <<80, 65, 68, 86>>,
     PRC |-> <<80, 82, 67>>, PCC |-> <<80, 67, 67>>,
     PVLF |-> <<80, 86, 76, 70>>, CC |-> <<67, 67>>, GDC |-> <<71, 68, 67>>,
     BAV |-> <<66, 65, 86>>, EREF |-> <<69, 82, 69, 70>>,
     EHC |-> <<69, 72, 67>>, OFACC |-> <<79, 70, 65, 67, 67>>,
     DRG |-> <<68, 82, 71>>, PPV |-> <<80, 80, 86>>, CVV |-> <<67, 86, 86>>,
     XAV |-> <<88, 65, 86>>, SMC |-> <<83, 77, 67>>, AAV |-> <<65, 65, 86>>,
     AVX |-> <<65, 86, 88>>, ZZV |-> <<90, 90, 86>>, Q |-> <<81>>]

RECURSIVE SeqLess(_, _)
SeqLess(a, b) ==
    IF b = <<>> THEN FALSE
    ELSE IF a = <<>> THEN TRUE
    ELSE IF Head(a) # Head(b) THEN Head(a) < Head(b)
    ELSE SeqLess(Tail(a), Tail(b))

\* a < b on str
StrLess(a, b) == SeqLess(CodePoints[a], CodePoints[b])

\* sorted(S) for a collection of different strings
RECURSIVE SortStrings(_)
SortStrings(S) ==
    IF S = {} THEN <<>>
    ELSE LET m == CHOOSE x \in S : \A y \in S \ {x} : StrLess(x, y)
         IN <<m>> \o SortStrings(S \ {m})

Range(s) == {s[i] : i \in DOMAIN s}

\* the sequence s in the order of the indices in ord
Permute(s, ord) == [i \in DOMAIN ord |-> s[ord[i]]]

\* list.sort / sorted with reverse=True on integer keys: descending, and
\* elements with equal keys keep their relative order
RECURSIVE InsertDesc(_, _, _)
InsertDesc(s, x, keys) ==
    IF s = <<>> THEN <<x>>
    ELSE IF keys[Head(s)] >= keys[x] THEN <<Head(s)>> \o InsertDesc(Tail(s), x, keys)
    ELSE <<x>> \o s

RECURSIVE SortedIndicesDesc(_, _)
SortedIndicesDesc(n, keys) ==
    IF n = 0 THEN <<>>
    ELSE InsertDesc(SortedIndicesDesc(n - 1, keys), n, keys)

\* line 53: sorted(items, key=lambda x: (-x[1], x[0]))
ItemBefore(x, y) == x.val > y.val \/ (x.val = y.val /\ StrLess(x.key, y.key))

RECURSIVE InsertItem(_, _)
InsertItem(s, x) ==
    IF s = <<>> THEN <<x>>
    ELSE IF ItemBefore(x, Head(s)) THEN <<x>> \o s
    ELSE <<Head(s)>> \o InsertItem(Tail(s), x)

RECURSIVE SortItems(_)
SortItems(items) ==
    IF items = <<>> THEN <<>>
    ELSE InsertItem(SortItems(SubSeq(items, 1, Len(items) - 1)), items[Len(items)])

\* lines 47-57: the text "TYPE:count, TYPE:count" as the sequence of its
\* (type, count) parts, or the text "None"
format_verification_types(verification_types_count) ==
    IF verification_types_count = <<>> THEN "None"
    ELSE SortItems(verification_types_count)

-----------------------------------------------------------------------------
(* excel_document *)

Null == [t |-> "null"]
Str(s) == [t |-> "str", s |-> s]
Dict(d) == [t |-> "dict", d |-> d]

\* bool(v) for None and str
Truthy(v) == v.t = "str" /\ v.s # ""

\* lines 287-293 without the test of s3_url: any structured reference counts
HasExcelPeriodAnyDict(process) ==
    LET excel_document == Get(process, "excel_document", Str("")) IN
    IF excel_document.t = "dict" THEN TRUE
    ELSE IF excel_document.t = "str" /\ excel_document.s # "" THEN TRUE
    ELSE FALSE

\* lines 287-293 (calculate_excel_stats)
HasExcelPeriod(process) ==
    LET excel_document == Get(process, "excel_document", Str("")) IN
    IF excel_document.t = "dict" /\ Truthy(Get(excel_document.d, "s3_url", Null))
    THEN TRUE
    ELSE IF excel_document.t = "str" /\ excel_document.s # "" THEN TRUE
    ELSE FALSE

\* lines 359-365 (the per-user loop of display_stats_content)
HasExcelUser(process) ==
    LET excel_document == Get(process, "excel_document", Str("")) IN
    IF excel_document.t = "dict" /\ Truthy(Get(excel_document.d, "s3_url", Null))
    THEN TRUE
    ELSE IF excel_document.t = "str" /\ excel_document.s # "" THEN TRUE
    ELSE FALSE

-----------------------------------------------------------------------------
(* display_stats_content *)

\* the summary keys lines 307-311 subscript
SubscriptedFields ==
    {"total_individuals", "successful_onboardings", "failed_onboardings",
     "discarded_candidates", "verifications_initiated"}

\* the processes of every user, in the order of the nested loops
RECURSIVE AllProcesses(_)
AllProcesses(period) ==
    IF period = <<>> THEN <<>>
    ELSE Head(period).val.processes \o AllProcesses(Tail(period))

\* the period total recomputed from the process records, not read from the
\* summaries
SumSummaryFromProcesses(period, field) == SumGet(AllProcesses(period), field)

\* sum(user_data['summary'][field] for user_data in period_data.values())
SumSummary(period, field) ==
    SumSeq([i \in DOMAIN period |-> period[i].val.summary[field]])

\* lines 280-299
calculate_excel_stats(period) ==
    LET with_excel == SelectSeq(AllProcesses(period), HasExcelPeriod) IN
    [total_processes_with_excel |-> Len(with_excel),
     total_individuals_with_excel |-> SumGet(with_excel, "total_individuals")]

\* lines 305-314
PeriodTotals(period) ==
    LET overall_failed == SumSummary(period, "failed_onboardings")
        excel == calculate_excel_stats(period)
    IN [total_users |-> Len(period),
        total_processes |->
            SumSeq([i \in DOMAIN period |-> Len(period[i].val.processes)]),
        overall_individuals |-> SumSummary(period, "total_individuals"),
        overall_successful |-> SumSummary(period, "successful_onboardings"),
        overall_failed |-> overall_failed,
        overall_discarded |->
            SumSummary(period, "discarded_candidates") + overall_failed,
        overall_verifications_initiated |->
            SumSummary(period, "verifications_initiated"),
        total_processes_with_excel |-> excel.total_processes_with_excel,
        total_individuals_with_excel |-> excel.total_individuals_with_excel]

\* lines 305-314 with the KeyError of summary[field] on a summary without it
ComputeTotals(period) ==
    IF \E i \in DOMAIN period :
           \E f \in SubscriptedFields : f \notin DOMAIN period[i].val.summary
    THEN Raised("KeyError")
    ELSE Returned(PeriodTotals(period))

\* lines 371: one attachment-bearing process's share of Discarded with Excel
DiscardedOfProcess(process) ==
    Get(process, "discarded_candidates", 0) + Get(process, "failed_onboardings", 0)

\* line 378
DiscardedOfSummary(summary) ==
    summary["discarded_candidates"] + summary["failed_onboardings"]

\* lines 381-385 with a negative difference clamped to 0
DocumentsOnlyClamped(total, with_excel) ==
    IF total - with_excel < 0 THEN 0 ELSE total - with_excel

\* lines 381-385: total minus Excel
DocumentsOnly(total, with_excel) == total - with_excel

\* lines 348-404: the table row of one user
UserRow(user_id, user_data) ==
    LET summary == user_data.summary
        with_excel == SelectSeq(user_data.processes, HasExcelUser)
        user_processes_with_excel == Len(with_excel)
        user_individuals_with_excel == SumGet(with_excel, "total_individuals")
        user_successful_with_excel == SumGet(with_excel, "successful_onboardings")
        user_discarded_with_excel ==
            SumSeq([i \in DOMAIN with_excel |-> DiscardedOfProcess(with_excel[i])])
        user_verifications_with_excel ==
            SumGet(with_excel, "verifications_initiated")
        total_processes == Len(user_data.processes)
        total_individuals == summary["total_individuals"]
        total_successful == summary["successful_onboardings"]
        total_discarded == DiscardedOfSummary(summary)
        total_verifications == Get(summary, "verifications_initiated", 0)
    IN [User |-> get_user_display_name(user_id),
        Total_Processes |-> total_processes,
        Total_Individuals |-> total_individuals,
        Successful |-> total_successful,
        Discarded |-> total_discarded,
        Verifications_Initiated |-> total_verifications,
        Processes_with_Excel |-> user_processes_with_excel,
        Individuals_with_Excel |-> user_individuals_with_excel,
        Successful_with_Excel |-> user_successful_with_excel,
        Discarded_with_Excel |-> user_discarded_with_excel,
        Verifications_Initiated_with_Excel |-> user_verifications_with_excel,
        Processes_with_Documents_Only |->
            DocumentsOnly(total_processes, user_processes_with_excel),
        Individuals_with_Documents_Only |->
            DocumentsOnly(total_individuals, user_individuals_with_excel),
        Successful_with_Documents_Only |->
            DocumentsOnly(total_successful, user_successful_with_excel),
        Discarded_with_Documents_Only |->
            DocumentsOnly(total_discarded, user_discarded_with_excel),
        Verifications_Initiated_with_Documents_Only |->
            DocumentsOnly(total_verifications, user_verifications_with_excel)]

Reverse(s) == [i \in DOMAIN s |-> s[Len(s) + 1 - i]]

\* line 407 as an ascending sort that is then reversed: equal keys end up in
\* reverse input order
SortTableDataAscendingReversed(rows) ==
    Permute(rows, Reverse(SortedIndicesDesc(Len(rows),
                      [i \in DOMAIN rows |-> 0 - rows[i].Total_Individuals])))

\* line 407: table_data.sort(key=lambda x: x['Total Individuals'], reverse=True)
SortTableData(rows) ==
    Permute(rows, SortedIndicesDesc(Len(rows),
                      [i \in DOMAIN rows |-> rows[i].Total_Individuals]))

\* lines 347-407
BuildTableData(period) ==
    SortTableData([i \in DOMAIN period |-> UserRow(period[i].key, period[i].val)])

\* line 417: sorted(period_data.items(), key=summary total_individuals, reverse=True)
SortUsers(period) ==
    Permute(period, SortedIndicesDesc(Len(period),
                [i \in DOMAIN period |-> period[i].val.summary["total_individuals"]]))

\* lines 521-541: one row of the detailed process view
FormatProcess(process) ==
    LET p1 == IF "failed_onboardings" \in DOMAIN process
                 /\ "discarded_candidates" \in DOMAIN process
              THEN Del(Put(process, "discarded_candidates",
                           process["discarded_candidates"]
                             + process["failed_onboardings"]),
                       "failed_onboardings")
              ELSE process
        p2 == IF "verification_types_count" \in DOMAIN p1
              THEN Put(p1, "verification_types_count",
                       format_verification_types(p1["verification_types_count"]))
              ELSE p1
        excel_doc == p2["excel_document"]
        url == IF excel_doc.t = "dict" /\ "s3_url" \in DOMAIN excel_doc.d
               THEN excel_doc.d["s3_url"]
               ELSE IF excel_doc.t = "str" THEN Str(excel_doc.s)
               ELSE Str("")
    IN IF "excel_document" \in DOMAIN p2
       THEN Del(Put(p2, "Document URL", url), "excel_document")
       ELSE p2

\* lines 521-541 without the copy of line 521: the rewrites act on the
\* process record of the dataset itself
FormatInPlace(process) ==
    [original |-> FormatProcess(process), formatted |-> FormatProcess(process)]

\* lines 521-541: the rewrites act on process.copy(); the record of the
\* dataset keeps its keys and values
FormatWithCopy(process) ==
    [original |-> process, formatted |-> FormatProcess(process)]

\* lines 519-541: the rows of the view, and the user's process list after
\* the loop
FormatProcesses(processes) ==
    LET results == [i \in DOMAIN processes |-> FormatWithCopy(processes[i])] IN
    [processes |-> [i \in DOMAIN results |-> results[i].original],
     formatted_processes |-> [i \in DOMAIN results |-> results[i].formatted]]

\* lines 459 and 481: sorted(items, key=lambda x: -x[1]); items with equal
\* counts keep the order of the dict
SortByCountDesc(items) ==
    Permute(items, SortedIndicesDesc(Len(items),
                       [i \in DOMAIN items |-> items[i].val]))

\* lines 451-455: the tallies of the users' summaries added up, in the order
\* of sorted_users
RECURSIVE TotalVerificationTypes(_, _)
TotalVerificationTypes(acc, users) ==
    IF users = <<>> THEN acc
    ELSE TotalVerificationTypes(
             AddItems(acc, Get(Head(users).val.summary,
                               "verification_types_count", <<>>)),
             Tail(users))

\* lines 458-471: the badges of the total row, none for an empty tally
TotalBadges(users) == SortByCountDesc(TotalVerificationTypes(<<>>, users))

\* line 480: the user has a non-empty tally
HasVerificationTypes(user) ==
    Get(user.val.summary, "verification_types_count", <<>>) # <<>>

\* lines 476-495: one row of badges per user with a non-empty tally
UserBadges(users) ==
    LET shown == SelectSeq(users, HasVerificationTypes) IN
    [i \in DOMAIN shown |->
        Item(get_user_display_name(shown[i].key),
             SortByCountDesc(shown[i].val.summary["verification_types_count"]))]

-----------------------------------------------------------------------------
(* create_excel_dataframe: the column order *)

\* lines 67-73
get_all_verification_types(date_data) ==
    LET processes == AllProcesses(date_data) IN
    SortStrings(UNION {Keys(Get(processes[i], "verification_types_count", <<>>)) :
                           i \in DOMAIN processes})

\* line 82 without the filter on FIXED_VERIFICATION_ORDER
RemainingTypesUnfiltered(all_verification_types) ==
    SortStrings(Range(all_verification_types))

\* line 82
RemainingTypes(all_verification_types) ==
    SortStrings({v \in Range(all_verification_types) :
                     v \notin Range(FIXED_VERIFICATION_ORDER)})

\* lines 78-83
OrderedVerificationTypes(date_data) ==
    FIXED_VERIFICATION_ORDER \o RemainingTypes(get_all_verification_types(date_data))

\* lines 88-102: the row of one user; the count cells are read from the
\* summary's tally, 0 for a type the tally does not carry
ExcelRow(user_id, user_data, selected_date, ordered) ==
    LET verification_counts ==
            Get(user_data.summary, "verification_types_count", <<>>)
    IN [c \in {"Date", "User"} \cup Range(ordered) |->
           IF c \in Range(ordered) THEN OGet(verification_counts, c, 0)
           ELSE IF c = "Date" THEN selected_date
           ELSE get_user_display_name(user_id)]

\* lines 75-111: the DataFrame, as its column labels and its rows
create_excel_dataframe(date_data, selected_date) ==
    LET ordered == OrderedVerificationTypes(date_data) IN
    [columns |-> <<"Date", "User">> \o ordered,
     rows |-> [i \in DOMAIN date_data |->
                  ExcelRow(date_data[i].key, date_data[i].val,
                           selected_date, ordered)]]

-----------------------------------------------------------------------------
(* The input files.  A dataset is of one shape throughout (legacy lists or  *)
(* current {processes, summary} entries); the monthly file is of the        *)
(* current shape.  Keys of a record and of a summary may be missing.  The   *)
(* inputs are the union of families, each varying one part of a dataset.    *)

DailyKeys == <<"01/01/2024", "02/01/2024", "03/01/2024", "04/01/2024">>
MonthlyKeys == <<"01/2024", "02/2024", "03/2024", "04/2024">>
UserIds == <<"514833", "u2", "591950", "u4", "905072">>

NumericFields ==
    {"total_individuals", "successful_onboardings", "failed_onboardings",
     "discarded_candidates", "verifications_initiated"}
ProcessFields == NumericFields \cup {"verification_types_count", "excel_document"}

Restrict(d, keys) == [k \in keys |-> d[k]]
SeqsUpTo(S, n) == UNION {[1..k -> S] : k \in 0..n}

BaseProc ==
    [total_individuals |-> 2, successful_onboardings |-> 1,
     failed_onboardings |-> 1, discarded_candidates |-> 1,
     verifications_initiated |-> 2,
     verification_types_count |-> <<Item("AV", 1), Item("PANV", 1)>>,
     excel_document |-> Dict([s3_url |-> Str("http://x")])]

\* the record of the scenario of section 8
ScenarioProc ==
    [total_individuals |-> 10, successful_onboardings |-> 7,
     failed_onboardings |-> 1, discarded_candidates |-> 2,
     verification_types_count |-> <<Item("AV", 3), Item("PANV", 1)>>]

ExcelDocuments ==
    {Str(""), Str("http://x"), Null, Dict(<<>>), Dict([s3_url |-> Str("")]),
     Dict([s3_url |-> Null]), Dict([s3_url |-> Str("http://x")])}

Tallies ==
    {<<>>, <<Item("AV", MaxCount), Item("ZZV", 1)>>}
    \cup {<<Item(c, 1)>> : c \in {"AV", "SMC", "AAV", "ZZV", "AVX"}}
    \cup {<<Item(ab[1], 1), Item(ab[2], n)>> :
              ab \in {<<"ZZV", "AAV">>, <<"AAV", "ZZV">>}, n \in {1, MaxCount}}

NumProcs ==
    {[BaseProc EXCEPT ![f] = v] : f \in NumericFields, v \in {0, MaxCount + 1}}
    \cup {Restrict(BaseProc, ProcessFields \ {f}) : f \in ProcessFields}
    \cup {ScenarioProc}

ExcelProcs ==
    {[BaseProc EXCEPT !["excel_document"] = x] : x \in ExcelDocuments}
    \cup {Restrict(BaseProc, ProcessFields \ {"excel_document"})}

TallyProcs ==
    {[BaseProc EXCEPT !["verification_types_count"] = t] : t \in Tallies}
    \cup {Restrict(BaseProc, ProcessFields \ {"verification_types_count"})}

RankProcs == {[BaseProc EXCEPT !["total_individuals"] = v] : v \in 0..MaxCount}

MixProcs ==
    {BaseProc, ScenarioProc,
     Restrict(BaseProc, ProcessFields \ {"excel_document"}),
     Restrict(BaseProc, ProcessFields \ {"discarded_candidates"}),
     [BaseProc EXCEPT !["verification_types_count"] = <<Item("ZZV", 1), Item("AAV", 2)>>]}

LegacyUser(processes) == [t |-> "list", items |-> processes]
CurrentUser(processes, summary) ==
    [t |-> "dict", processes |-> processes, summary |-> summary]

\* a period whose users carry the values vals, in this order
PeriodOf(vals) == [i \in DOMAIN vals |-> Item(UserIds[i], vals[i])]
\* a dataset whose periods are ps, in this order, under the keys K
DatasetOf(K, ps) == [i \in DOMAIN ps |-> Item(K[i], ps[i])]

\* the summaries a current-shape file may store beside a process list: the
\* sums, a summary without one of its keys, and summaries that differ from
\* the sums
Summaries(processes) ==
    LET s == ConvertUser(processes).summary IN
    {s}
    \cup {Restrict(s, (DOMAIN s) \ {f}) : f \in DOMAIN s}
    \cup {[s EXCEPT ![f] = 0] : f \in NumericFields}
    \cup {[s EXCEPT ![f] = s[f] + 1] : f \in NumericFields}
    \cup {[s EXCEPT !["verification_types_count"] = <<Item("ZZV", 1)>>]}

\* one period, one user, a legacy list of up to MaxProcs processes
ProcessFamily(K) ==
    {DatasetOf(K, <<PeriodOf(<<LegacyUser(ps)>>)>>) :
        ps \in SeqsUpTo(NumProcs, MaxProcs) \cup SeqsUpTo(ExcelProcs, MaxProcs)
               \cup SeqsUpTo(TallyProcs, MaxProcs)}

\* one period, up to MaxUsers legacy users of one process each
UserFamily(K) ==
    {DatasetOf(K, <<PeriodOf([i \in DOMAIN f |-> LegacyUser(f[i])])>>) :
        f \in (SeqsUpTo({<<p>> : p \in RankProcs}, MaxUsers)
               \cup SeqsUpTo({<<>>} \cup {<<p>> : p \in MixProcs}, MaxUsers)) \ {<<>>}}

\* one period, one current-shape user
CurrentFamily(K) ==
    UNION {{DatasetOf(K, <<PeriodOf(<<CurrentUser(ps, s)>>)>>) : s \in Summaries(ps)} :
              ps \in SeqsUpTo(MixProcs, MaxProcs)}

CurrentUserPool ==
    UNION {{CurrentUser(ps, s) :
                s \in {ConvertUser(ps).summary,
                       [ConvertUser(ps).summary EXCEPT !["total_individuals"] = 1]}} :
              ps \in {<<>>, <<BaseProc>>,
                      <<Restrict(BaseProc, ProcessFields \ {"excel_document"})>>}}

\* one period, up to MaxUsers current-shape users
CurrentUsersFamily(K) ==
    {DatasetOf(K, <<PeriodOf(f)>>) : f \in SeqsUpTo(CurrentUserPool, MaxUsers) \ {<<>>}}

LegacyPeriods ==
    {<<>>,
     PeriodOf(<<LegacyUser(<<>>)>>),
     PeriodOf(<<LegacyUser(<<BaseProc>>)>>),
     PeriodOf(<<LegacyUser(<<ScenarioProc>>), LegacyUser(<<BaseProc, ScenarioProc>>)>>)}

CurrentPeriods ==
    {<<>>,
     PeriodOf(<<ConvertUser(<<>>)>>),
     PeriodOf(<<ConvertUser(<<BaseProc>>)>>),
     PeriodOf(<<CurrentUser(<<BaseProc>>, ConvertUser(<<ScenarioProc>>).summary)>>),
     PeriodOf(<<ConvertUser(<<ScenarioProc>>), ConvertUser(<<BaseProc, ScenarioProc>>)>>)}

\* up to MaxPeriods periods, the empty dataset and periods without users included
PeriodFamily(K, periods) ==
    {DatasetOf(K, ps) : ps \in SeqsUpTo(periods, MaxPeriods)}

DailyInputs ==
    ProcessFamily(DailyKeys) \cup UserFamily(DailyKeys)
    \cup CurrentFamily(DailyKeys) \cup CurrentUsersFamily(DailyKeys)
    \cup PeriodFamily(DailyKeys, LegacyPeriods)
    \cup PeriodFamily(DailyKeys, CurrentPeriods)

MonthlyInputs ==
    CurrentFamily(MonthlyKeys) \cup CurrentUsersFamily(MonthlyKeys)
    \cup PeriodFamily(MonthlyKeys, CurrentPeriods)

-----------------------------------------------------------------------------
(* The run: main -> display_daily_stats / display_monthly_stats ->         *)
(* display_stats_content                                                    *)

Init ==
    /\ view_type \in {"daily", "monthly"}
    /\ source \in {"missing", "malformed", "ok"}
    /\ raw \in IF source = "ok"
               THEN (IF view_type = "daily" THEN DailyInputs ELSE MonthlyInputs)
               ELSE {<<>>}
    /\ pc = "start"
    /\ data = <<>>
    /\ error = "none"
    /\ signalled = FALSE
    /\ selected_period = ""
    /\ period_data = <<>>
    /\ totals = <<>>
    /\ table_data = <<>>
    /\ sorted_users = <<>>
    /\ selected_user = ""
    /\ formatted_processes = <<>>
    /\ ordered_verification_types = <<>>
    /\ total_badges = <<>>
    /\ user_badges = <<>>
    /\ excel_data = [columns |-> <<>>, rows |-> <<>>]

\* display_daily_stats, line 210
LoadData ==
    /\ pc = "start" /\ view_type = "daily"
    /\ LET r == load_data(source, raw) IN
         /\ data' = r.value
         /\ signalled' = r.st_error
         /\ error' = r.error
         /\ pc' = IF r.error = "none" THEN "loaded" ELSE "raised"
    /\ UNCHANGED <<view_type, source, raw, selected_period, period_data, totals,
                   table_data, sorted_users, selected_user, formatted_processes,
                   ordered_verification_types,
                   total_badges, user_badges, excel_data>>

\* display_monthly_stats, line 246
LoadMonthlyData ==
    /\ pc = "start" /\ view_type = "monthly"
    /\ LET r == load_monthly_data(source, raw) IN
         /\ data' = r.value
         /\ signalled' = r.st_error
         /\ error' = r.error
         /\ pc' = IF r.error = "none" THEN "loaded" ELSE "raised"
    /\ UNCHANGED <<view_type, source, raw, selected_period, period_data, totals,
                   table_data, sorted_users, selected_user, formatted_processes,
                   ordered_verification_types,
                   total_badges, user_badges, excel_data>>

\* lines 212-213 and 248-249: st.stop() on falsy data
StopNoData ==
    /\ pc = "loaded" /\ data = <<>>
    /\ pc' = "stopped"
    /\ UNCHANGED <<view_type, source, raw, data, error, signalled, selected_period,
                   period_data, totals, table_data, sorted_users, selected_user,
                   formatted_processes, ordered_verification_types,
                   total_badges, user_badges, excel_data>>

\* lines 226-242 and 262-278: the selectbox offers every period key; a period
\* without users ends the run with a warning
SelectPeriod ==
    /\ pc = "loaded" /\ data # <<>>
    /\ \E i \in DOMAIN data :
         /\ selected_period' = data[i].key
         /\ period_data' = data[i].val
         /\ pc' = IF data[i].val = <<>> THEN "no_period_data" ELSE "display"
    /\ UNCHANGED <<view_type, source, raw, data, error, signalled, totals, table_data,
                   sorted_users, selected_user, formatted_processes,
                   ordered_verification_types,
                   total_badges, user_badges, excel_data>>

\* display_stats_content, lines 305-314
Totals ==
    /\ pc = "display"
    /\ LET r == ComputeTotals(period_data) IN
         /\ totals' = r.value
         /\ error' = r.error
         /\ pc' = IF r.error = "none" THEN "totals" ELSE "raised"
    /\ UNCHANGED <<view_type, source, raw, data, signalled, selected_period,
                   period_data, table_data, sorted_users, selected_user,
                   formatted_processes, ordered_verification_types,
                   total_badges, user_badges, excel_data>>

\* display_stats_content, lines 346-411
UserSummaryTable ==
    /\ pc = "totals"
    /\ table_data' = BuildTableData(period_data)
    /\ pc' = "table"
    /\ UNCHANGED <<view_type, source, raw, data, error, signalled, selected_period,
                   period_data, totals, sorted_users, selected_user,
                   formatted_processes, ordered_verification_types,
                   total_badges, user_badges, excel_data>>

\* display_stats_content, lines 413-495
VerificationTypesByUser ==
    /\ pc = "table"
    /\ sorted_users' = SortUsers(period_data)
    /\ total_badges' = TotalBadges(SortUsers(period_data))
    /\ user_badges' = UserBadges(SortUsers(period_data))
    /\ pc' = "breakdown"
    /\ UNCHANGED <<view_type, source, raw, data, error, signalled, selected_period,
                   period_data, totals, table_data, selected_user,
                   formatted_processes, ordered_verification_types, excel_data>>

\* display_stats_content, lines 497-561: the selectbox offers every user
DetailedProcessView ==
    /\ pc = "breakdown"
    /\ \E j \in DOMAIN period_data :
         LET r == FormatProcesses(period_data[j].val.processes)
             period_after ==
                 [period_data EXCEPT ![j].val.processes = r.processes]
         IN /\ selected_user' = period_data[j].key
            /\ formatted_processes' = r.formatted_processes
            \* user_data is the object held by period_data and by data
            /\ period_data' = period_after
            /\ data' = [i \in DOMAIN data |->
                           IF data[i].key = selected_period
                           THEN Item(data[i].key, period_after)
                           ELSE data[i]]
    /\ pc' = "detail"
    /\ UNCHANGED <<view_type, source, raw, error, signalled, selected_period,
                   totals, table_data, sorted_users,
                   ordered_verification_types,
                   total_badges, user_badges, excel_data>>

\* display_stats_content, lines 563-588
ExcelExport ==
    /\ pc = "detail"
    /\ ordered_verification_types' = OrderedVerificationTypes(period_data)
    /\ excel_data' = create_excel_dataframe(period_data, selected_period)
    /\ pc' = "done"
    /\ UNCHANGED <<view_type, source, raw, data, error, signalled, selected_period,
                   period_data, totals, table_data, sorted_users, selected_user,
                   formatted_processes,
                   total_badges, user_badges>>

Next ==
    \/ LoadData
    \/ LoadMonthlyData
    \/ StopNoData
    \/ SelectPeriod
    \/ Totals
    \/ UserSummaryTable
    \/ VerificationTypesByUser
    \/ DetailedProcessView
    \/ ExcelExport

Spec == Init /\ [][Next]_vars

-----------------------------------------------------------------------------
(* Properties.  The sums below are written from the statements, by index,  *)
(* independently of the operators that model the code.                      *)

RECURSIVE FieldTotal(_, _, _)
\* the sum of field f over ps[1..n], an absent field counted as 0
FieldTotal(ps, f, n) ==
    IF n = 0 THEN 0
    ELSE FieldTotal(ps, f, n - 1) + (IF f \in DOMAIN ps[n] THEN ps[n][f] ELSE 0)

\* the count a tally gives code c, 0 when it has none
CountOf(tally, c) ==
    LET S == {i \in DOMAIN tally : tally[i].key = c} IN
    IF S = {} THEN 0 ELSE tally[CHOOSE i \in S : TRUE].val

TallyOf(process) ==
    IF "verification_types_count" \in DOMAIN process
    THEN process["verification_types_count"] ELSE <<>>

RECURSIVE CodeTotal(_, _, _)
\* the sum of the counts of code c over ps[1..n]
CodeTotal(ps, c, n) ==
    IF n = 0 THEN 0 ELSE CodeTotal(ps, c, n - 1) + CountOf(TallyOf(ps[n]), c)

CodesOf(ps) == UNION {Keys(TallyOf(ps[i])) : i \in DOMAIN ps}

NoDuplicateKeys(od) ==
    \A i \in DOMAIN od : \A j \in DOMAIN od : od[i].key = od[j].key => i = j

\* the daily file was read and line 144 found the legacy shape
DetectedLegacy ==
    /\ view_type = "daily" /\ source = "ok" /\ pc # "start"
    /\ raw # <<>> /\ raw[1].val # <<>> /\ raw[1].val[1].val.t = "list"

\* the entry load_data emits for a legacy process list
IsNormalizedEntry(entry, processes) ==
    /\ entry.t = "dict"
    /\ entry.processes = processes
    /\ DOMAIN entry.summary = NumericFields \cup {"verification_types_count"}
    /\ \A f \in NumericFields :
          entry.summary[f] = FieldTotal(processes, f, Len(processes))
    /\ NoDuplicateKeys(entry.summary["verification_types_count"])
    /\ Keys(entry.summary["verification_types_count"]) = CodesOf(processes)
    /\ \A c \in CodesOf(processes) :
          CountOf(entry.summary["verification_types_count"], c)
              = CodeTotal(processes, c, Len(processes))

\* C1: for a dataset detected as legacy, load_data emits for every period and
\* every user {processes, summary} with the original process list, each
\* numeric summary field the sum over the processes (absent as 0) and the
\* tally mapping each code to the sum of its counts.
C1_LegacySummariesAreSums ==
    DetectedLegacy =>
        /\ error = "none"
        /\ Len(data) = Len(raw)
        /\ \A i \in DOMAIN raw :
              /\ data[i].key = raw[i].key
              /\ Len(data[i].val) = Len(raw[i].val)
              /\ \A j \in DOMAIN raw[i].val :
                    /\ data[i].val[j].key = raw[i].val[j].key
                    /\ IsNormalizedEntry(data[i].val[j].val, raw[i].val[j].val.items)

\* a legacy user with two processes, one of them without total_individuals,
\* whose tallies share a code, has been migrated
C1_Witness ==
    /\ DetectedLegacy /\ pc = "loaded"
    /\ \E i \in DOMAIN raw : \E j \in DOMAIN raw[i].val :
          LET ps == raw[i].val[j].val.items IN
          /\ Len(ps) = 2
          /\ "total_individuals" \notin DOMAIN ps[1]
          /\ "total_individuals" \in DOMAIN ps[2]
          /\ "AV" \in Keys(TallyOf(ps[1])) \cap Keys(TallyOf(ps[2]))
          /\ data[i].val[j].val.summary["total_individuals"] = ps[2]["total_individuals"]

\* every user value of the dataset is a {processes, summary} mapping
IsCurrentShape(d) ==
    \A i \in DOMAIN d : \A j \in DOMAIN d[i].val : d[i].val[j].val.t = "dict"

\* C2: a current-shape dataset is returned by load_data unchanged, whatever
\* its summaries; normalizing the result of a normalization changes nothing;
\* the empty dataset is returned unchanged.
C2_NormalizeIdempotent ==
    (view_type = "daily" /\ source = "ok" /\ pc # "start") =>
        /\ IsCurrentShape(raw) => (error # "IndexError" /\ data = raw)
        /\ Normalize(data) = Returned(data)

\* C3: a source that cannot be located or parsed yields the empty dataset
\* and the SourceMissing signal, and no exception, in both loaders.
C3_SourceMissingSignalled ==
    (source \in {"missing", "malformed"} /\ pc # "start") =>
        (error = "none" /\ data = <<>> /\ signalled)

\* C4: no exception leaves normalization or aggregation for a dataset that
\* was read, whatever keys its periods, records and summaries lack.
C4_NeverRaisesOnShape ==
    source = "ok" => error = "none"

\* the period totals have been computed
TotalsComputed == pc \in {"totals", "table", "breakdown", "detail", "done"}
\* the user summary table has been built
TableBuilt == pc \in {"table", "breakdown", "detail", "done"}

RECURSIVE SummaryTotal(_, _, _)
\* the sum of summary field f over the first n users of the period
SummaryTotal(period, f, n) ==
    IF n = 0 THEN 0
    ELSE SummaryTotal(period, f, n - 1) + period[n].val.summary[f]

RECURSIVE ProcessCount(_, _)
ProcessCount(period, n) ==
    IF n = 0 THEN 0 ELSE ProcessCount(period, n - 1) + Len(period[n].val.processes)

\* the period-wide total the aggregator computes for a base field
TotalFor(f) ==
    CASE f = "total_individuals" -> totals.overall_individuals
      [] f = "successful_onboardings" -> totals.overall_successful
      [] f = "failed_onboardings" -> totals.overall_failed
      [] f = "discarded_candidates" -> totals.overall_discarded
      [] f = "verifications_initiated" -> totals.overall_verifications_initiated

\* C5 as stated: each of the five period-wide totals is the sum of that
\* summary field over the users; total users is the number of user keys and
\* total processes the sum of the process-list lengths.
C5_TotalsAreSums_Original ==
    TotalsComputed =>
        /\ \A f \in NumericFields :
              TotalFor(f) = SummaryTotal(period_data, f, Len(period_data))
        /\ totals.total_users = Cardinality(Keys(period_data))
        /\ totals.total_processes = ProcessCount(period_data, Len(period_data))

\* C5 (amended): the totals of total_individuals, successful_onboardings,
\* failed_onboardings and verifications_initiated are the sums of the users'
\* summary values; the period's discarded total is the sum of the users'
\* discarded_candidates plus the sum of their failed_onboardings; total
\* users is the number of user keys and total processes the sum of the
\* process-list lengths.
C5_TotalsAreSums ==
    TotalsComputed =>
        /\ \A f \in NumericFields \ {"discarded_candidates"} :
              TotalFor(f) = SummaryTotal(period_data, f, Len(period_data))
        /\ totals.overall_discarded =
              SummaryTotal(period_data, "discarded_candidates", Len(period_data))
              + SummaryTotal(period_data, "failed_onboardings", Len(period_data))
        /\ totals.total_users = Cardinality(Keys(period_data))
        /\ totals.total_processes = ProcessCount(period_data, Len(period_data))

\* totals of a period of several users, with failed onboardings, one of
\* whose summaries is not the sum of its processes
C5_Witness ==
    /\ pc = "totals"
    /\ Len(period_data) >= 2
    /\ totals.overall_failed > 0
    /\ totals.overall_discarded > totals.overall_failed
    /\ \E i \in DOMAIN period_data :
          period_data[i].val.summary["total_individuals"]
              # FieldTotal(period_data[i].val.processes, "total_individuals",
                           Len(period_data[i].val.processes))

\* has_excel_attachment as the statement has it: a non-empty string, or a
\* structured reference whose s3_url is a non-empty string
IsAttachment(process) ==
    /\ "excel_document" \in DOMAIN process
    /\ LET x == process["excel_document"] IN
          \/ x.t = "str" /\ x.s # ""
          \/ /\ x.t = "dict"
             /\ "s3_url" \in DOMAIN x.d
             /\ x.d["s3_url"].t = "str"
             /\ x.d["s3_url"].s # ""

AttachmentCount(ps) == Cardinality({i \in DOMAIN ps : IsAttachment(ps[i])})

RECURSIVE AttachmentTotal(_, _, _)
\* the sum of field f over the attachment-bearing processes among ps[1..n]
AttachmentTotal(ps, f, n) ==
    IF n = 0 THEN 0
    ELSE AttachmentTotal(ps, f, n - 1)
         + (IF IsAttachment(ps[n]) /\ f \in DOMAIN ps[n] THEN ps[n][f] ELSE 0)

RECURSIVE RowTotal(_, _, _)
\* the sum of a column over the first n rows of a table
RowTotal(rows, column, n) ==
    IF n = 0 THEN 0 ELSE RowTotal(rows, column, n - 1) + rows[n][column]

\* the entry of the period the table row is about
UserOfRow(row) ==
    period_data[CHOOSE j \in DOMAIN period_data :
                    get_user_display_name(period_data[j].key) = row.User].val

\* the processes of the user selected in the detailed process view
SelectedProcesses ==
    period_data[CHOOSE j \in DOMAIN period_data :
                    period_data[j].key = selected_user].val.processes

\* C6: every discard count shown is discarded_candidates + failed_onboardings:
\* the period metric, each user's Discarded and Discarded with Excel, and the
\* discard cell of each row of the detailed process view, whichever of the
\* two fields the record carries; the period value is the sum of the users'.
C6_DiscardCombinedOnce ==
    /\ TotalsComputed =>
          totals.overall_discarded =
              SummaryTotal(period_data, "discarded_candidates", Len(period_data))
              + SummaryTotal(period_data, "failed_onboardings", Len(period_data))
    /\ TableBuilt =>
          /\ \A k \in DOMAIN table_data :
                LET u == UserOfRow(table_data[k])
                    n == Len(u.processes)
                IN /\ table_data[k].Discarded =
                          u.summary["discarded_candidates"]
                          + u.summary["failed_onboardings"]
                   /\ table_data[k].Discarded_with_Excel =
                          AttachmentTotal(u.processes, "discarded_candidates", n)
                          + AttachmentTotal(u.processes, "failed_onboardings", n)
          /\ totals.overall_discarded =
                RowTotal(table_data, "Discarded", Len(table_data))
    /\ pc \in {"detail", "done"} =>
          \A i \in DOMAIN formatted_processes :
             LET p == SelectedProcesses[i] IN
             ({"discarded_candidates", "failed_onboardings"} \cap DOMAIN p # {}) =>
                /\ "discarded_candidates" \in DOMAIN formatted_processes[i]
                /\ formatted_processes[i]["discarded_candidates"] =
                      FieldTotal(<<p>>, "discarded_candidates", 1)
                      + FieldTotal(<<p>>, "failed_onboardings", 1)

\* one split metric of a row: the attachment part, the documents-only part
\* and the total they split
SplitHolds(with_excel, documents_only, total) ==
    /\ with_excel + documents_only = total
    /\ (documents_only < 0) <=> (with_excel > total)

\* C7: for every user and every split metric, withAttachment + documentsOnly
\* = total, the total read from the user's summary (the list length for
\* processes) and withAttachment summed over the attachment-bearing
\* processes; documentsOnly is negative exactly when withAttachment exceeds
\* the total.
C7_SplitAddsUp ==
    TableBuilt =>
        \A k \in DOMAIN table_data :
           LET r == table_data[k]
               u == UserOfRow(r)
               ps == u.processes
               n == Len(ps)
           IN /\ r.Processes_with_Excel = AttachmentCount(ps)
              /\ SplitHolds(r.Processes_with_Excel, r.Processes_with_Documents_Only, n)
              /\ r.Individuals_with_Excel = AttachmentTotal(ps, "total_individuals", n)
              /\ SplitHolds(r.Individuals_with_Excel, r.Individuals_with_Documents_Only,
                            u.summary["total_individuals"])
              /\ r.Successful_with_Excel =
                    AttachmentTotal(ps, "successful_onboardings", n)
              /\ SplitHolds(r.Successful_with_Excel, r.Successful_with_Documents_Only,
                            u.summary["successful_onboardings"])
              /\ r.Discarded_with_Excel =
                    AttachmentTotal(ps, "discarded_candidates", n)
                    + AttachmentTotal(ps, "failed_onboardings", n)
              /\ SplitHolds(r.Discarded_with_Excel, r.Discarded_with_Documents_Only,
                            u.summary["discarded_candidates"]
                            + u.summary["failed_onboardings"])
              /\ r.Verifications_Initiated_with_Excel =
                    AttachmentTotal(ps, "verifications_initiated", n)
              /\ SplitHolds(r.Verifications_Initiated_with_Excel,
                            r.Verifications_Initiated_with_Documents_Only,
                            u.summary["verifications_initiated"])

\* a row whose attachment-bearing individuals exceed the summary total, and
\* a row with a positive documents-only part
C7_Witness ==
    /\ pc = "table"
    /\ \E k \in DOMAIN table_data :
          /\ table_data[k].Individuals_with_Excel > table_data[k].Total_Individuals
          /\ table_data[k].Individuals_with_Documents_Only < 0
    /\ \E k \in DOMAIN table_data :
          /\ table_data[k].Processes_with_Excel > 0
          /\ table_data[k].Processes_with_Documents_Only > 0

RECURSIVE PeriodAttachmentCount(_, _)
PeriodAttachmentCount(period, n) ==
    IF n = 0 THEN 0
    ELSE PeriodAttachmentCount(period, n - 1) + AttachmentCount(period[n].val.processes)

\* C8: a process has an attachment iff its excel_document is a non-empty
\* string or a reference with a non-empty s3_url; the period counter and the
\* per-user split apply this predicate, so the period's processes and
\* individuals with excel are the sums of the per-user values.
C8_HasExcelAttachment ==
    TableBuilt =>
        /\ \A j \in DOMAIN period_data :
              \A i \in DOMAIN period_data[j].val.processes :
                 LET p == period_data[j].val.processes[i] IN
                 /\ HasExcelUser(p) <=> IsAttachment(p)
                 /\ HasExcelPeriod(p) <=> IsAttachment(p)
        /\ \A k \in DOMAIN table_data :
              table_data[k].Processes_with_Excel =
                  AttachmentCount(UserOfRow(table_data[k]).processes)
        /\ totals.total_processes_with_excel =
              PeriodAttachmentCount(period_data, Len(period_data))
        /\ totals.total_processes_with_excel =
              RowTotal(table_data, "Processes_with_Excel", Len(table_data))
        /\ totals.total_individuals_with_excel =
              RowTotal(table_data, "Individuals_with_Excel", Len(table_data))

\* a user with a reference whose s3_url is empty beside a process with a URL
C8_Witness ==
    /\ pc = "table"
    /\ totals.total_processes_with_excel = 1
    /\ \E j \in DOMAIN period_data :
          LET ps == period_data[j].val.processes IN
          /\ Len(ps) = 2
          /\ \E i \in DOMAIN ps :
                /\ "excel_document" \in DOMAIN ps[i]
                /\ ps[i]["excel_document"] = Dict([s3_url |-> Str("")])
          /\ \E i \in DOMAIN ps : IsAttachment(ps[i])

\* the codes observed in the process records of the period
ObservedCodes ==
    UNION {CodesOf(period_data[j].val.processes) : j \in DOMAIN period_data}

\* C9: the export column order is the fixed canonical list, each entry once
\* and in the list's order, followed by exactly the observed codes that are
\* not in the list, in strictly ascending lexical order, no code twice.
C9_ColumnOrder ==
    pc = "done" =>
        LET cols == ordered_verification_types
            k == Len(FIXED_VERIFICATION_ORDER)
        IN /\ Len(cols) >= k
           /\ SubSeq(cols, 1, k) = FIXED_VERIFICATION_ORDER
           /\ \A i \in DOMAIN cols : \A j \in DOMAIN cols : cols[i] = cols[j] => i = j
           /\ {cols[i] : i \in (k + 1)..Len(cols)}
                 = ObservedCodes \ Range(FIXED_VERIFICATION_ORDER)
           /\ \A i \in (k + 1)..(Len(cols) - 1) : StrLess(cols[i], cols[i + 1])

\* an export of a period that observed a code of the fixed list and two
\* codes outside it, recorded in descending lexical order
C9_Witness ==
    /\ pc = "done"
    /\ "AV" \in ObservedCodes
    /\ Len(ordered_verification_types) = Len(FIXED_VERIFICATION_ORDER) + 2
    /\ \E j \in DOMAIN period_data : \E i \in DOMAIN period_data[j].val.processes :
          LET t == TallyOf(period_data[j].val.processes[i]) IN
          Len(t) = 2 /\ t[1].key = "ZZV" /\ t[2].key = "AAV"

\* the position of a user's row in the user summary table
RowOf(user_id) ==
    CHOOSE k \in DOMAIN table_data :
        table_data[k].User = get_user_display_name(user_id)

\* C10: of two users with different total_individuals the larger is ranked
\* first, users with equal total_individuals keep their input order, and the
\* user summary table and the verification breakdown list the users in the
\* same order.
C10_Ranking ==
    pc \in {"breakdown", "detail", "done"} =>
        LET n == Len(period_data)
            ti(i) == period_data[i].val.summary["total_individuals"]
        IN /\ Len(table_data) = n
           /\ Len(sorted_users) = n
           /\ \A i \in 1..n : \E k \in 1..n :
                 table_data[k].User = get_user_display_name(period_data[i].key)
           /\ \A i \in 1..n : \A j \in 1..n :
                 /\ ti(i) > ti(j) => RowOf(period_data[i].key) < RowOf(period_data[j].key)
                 /\ (ti(i) = ti(j) /\ i < j) =>
                        RowOf(period_data[i].key) < RowOf(period_data[j].key)
           /\ \A k \in 1..n :
                 table_data[k].User = get_user_display_name(sorted_users[k].key)

\* three users, the second with the most individuals, the first and the
\* third tied
C10_Witness ==
    /\ pc = "breakdown"
    /\ Len(period_data) = 3
    /\ period_data[1].val.summary["total_individuals"]
          = period_data[3].val.summary["total_individuals"]
    /\ period_data[2].val.summary["total_individuals"]
          > period_data[1].val.summary["total_individuals"]
    /\ sorted_users[1].key = period_data[2].key
    /\ sorted_users[2].key = period_data[1].key

-----------------------------------------------------------------------------
(* Renderings of a verification tally *)

\* the pairs of a rendering are listed by count descending, ties by code
\* ascending
CountDescCodeAsc(items) ==
    \A i, j \in DOMAIN items :
        i < j =>
            \/ items[i].val > items[j].val
            \/ /\ items[i].val = items[j].val
               /\ StrLess(items[i].key, items[j].key)

\* a rendering lists the pairs of the tally, each once
SamePairs(items, tally) ==
    /\ Len(items) = Len(tally)
    /\ Range(items) = Range(tally)

\* the single-cell texts of the detailed process view are ordered
FormattedTextsOrdered ==
    pc \in {"detail", "done"} =>
        \A i \in DOMAIN formatted_processes :
            LET p == SelectedProcesses[i] IN
            ("verification_types_count" \in DOMAIN p
                /\ p["verification_types_count"] # <<>>) =>
                /\ SamePairs(formatted_processes[i]["verification_types_count"],
                             p["verification_types_count"])
                /\ CountDescCodeAsc(
                       formatted_processes[i]["verification_types_count"])

\* the badge row of the period total is ordered
TotalBadgesOrdered ==
    pc \in {"breakdown", "detail", "done"} => CountDescCodeAsc(total_badges)

\* each per-user badge row is ordered
UserBadgesOrdered ==
    pc \in {"breakdown", "detail", "done"} =>
        \A i \in DOMAIN user_badges :
            /\ \E j \in DOMAIN period_data :
                   /\ user_badges[i].key =
                          get_user_display_name(period_data[j].key)
                   /\ SamePairs(user_badges[i].val,
                                TallyOf(period_data[j].val.summary))
            /\ CountDescCodeAsc(user_badges[i].val)

\* C11: every rendering of a verification tally (the single-cell text of
\* format_verification_types, the badge row of the period total and each
\* per-user badge row) lists its (code, count) pairs by count descending with
\* ties broken by code ascending, whatever the insertion order of the tally.
C11_RenderingsOrdered ==
    /\ FormattedTextsOrdered
    /\ TotalBadgesOrdered
    /\ UserBadgesOrdered

-----------------------------------------------------------------------------
(* The export table *)

\* the codes with a non-zero count in the summary tally of some user
SummaryCodes ==
    {c \in UNION {Keys(TallyOf(period_data[j].val.summary)) :
                      j \in DOMAIN period_data} :
        \E j \in DOMAIN period_data :
            CountOf(TallyOf(period_data[j].val.summary), c) # 0}

\* one row per user, in the order of the users, the period and the display
\* name in the first two columns
OneRowPerUser ==
    /\ Len(excel_data.rows) = Len(period_data)
    /\ \A i \in DOMAIN excel_data.rows :
          /\ excel_data.rows[i][excel_data.columns[1]] = selected_period
          /\ excel_data.rows[i][excel_data.columns[2]] =
                 get_user_display_name(period_data[i].key)

\* the header is the period column, the user column, then the column order
HeaderIsColumnOrder ==
    /\ Len(excel_data.columns) = 2 + Len(ordered_verification_types)
    /\ excel_data.columns[2] = "User"
    /\ \A k \in DOMAIN ordered_verification_types :
          excel_data.columns[k + 2] = ordered_verification_types[k]

\* each count cell is the user's summary count for the code, 0 without one
CellsAreSummaryCounts ==
    \A i \in DOMAIN excel_data.rows :
        \A k \in DOMAIN ordered_verification_types :
            excel_data.rows[i][ordered_verification_types[k]] =
                CountOf(TallyOf(period_data[i].val.summary),
                        ordered_verification_types[k])

\* every code counted in a summary has a column
NoCountOmitted == SummaryCodes \subseteq Range(excel_data.columns)

\* C12: the export table has exactly one row per user, with header period,
\* User, then the column order's codes; each row's cell for a code is that
\* user's summary tally count for the code, 0 when the user has none, and
\* every code with a non-zero count in any user's summary tally has a column.
C12_ExportTable ==
    pc = "done" =>
        /\ OneRowPerUser
        /\ HeaderIsColumnOrder
        /\ CellsAreSummaryCounts
        /\ NoCountOmitted

-----------------------------------------------------------------------------
(* The loaded dataset is read only *)

\* the dataset as the load returned it
LoadedDataset ==
    IF view_type = "daily" THEN load_data(source, raw).value
    ELSE load_monthly_data(source, raw).value

\* a period has been selected and its users are on display
PeriodSelected ==
    pc \in {"display", "totals", "table", "breakdown", "detail", "done"}

\* C13: a pipeline run leaves the loaded dataset unchanged: after the
\* aggregation, the attachment split, the ranking, the detailed process view
\* and the export, every period, user, process record and summary has the
\* keys and values the load returned, and the period on display is still the
\* selected period of that dataset.
C13_DatasetUnchanged ==
    pc # "start" =>
        /\ data = LoadedDataset
        /\ PeriodSelected =>
              \E i \in DOMAIN LoadedDataset :
                  /\ LoadedDataset[i].key = selected_period
                  /\ period_data = LoadedDataset[i].val

\* the run is complete, and the detailed view showed a row that merged a
\* failed count into the discarded count, flattened a tally and replaced
\* excel_document with a Document URL
C13_Witness ==
    /\ pc = "done"
    /\ data = LoadedDataset
    /\ table_data # <<>>
    /\ Len(excel_data.rows) = Len(period_data)
    /\ \E i \in DOMAIN formatted_processes :
          LET p == SelectedProcesses[i]
              f == formatted_processes[i]
          IN /\ {"failed_onboardings", "discarded_candidates",
                 "verification_types_count", "excel_document"} \subseteq DOMAIN p
             /\ p["failed_onboardings"] > 0
             /\ Len(p["verification_types_count"]) > 1
             /\ "failed_onboardings" \notin DOMAIN f
             /\ "excel_document" \notin DOMAIN f
             /\ "Document URL" \in DOMAIN f
             /\ f["discarded_candidates"] =
                    p["discarded_candidates"] + p["failed_onboardings"]
             /\ f["verification_types_count"] # p["verification_types_count"]

====
